---- MODULE Spec2Model ----
(***************************************************************************)
(* BookBuddy: the per-book vector index (src/src/vector_store.py) and the  *)
(* RAG orchestrator (src/src/rag_engine.py) over the generation backend    *)
(* (src/src/ollama_client.py), the chunker (src/src/text_processor.py) and  *)
(* the session of the web application (src/app.py), as a state machine.    *)
(*                                                                         *)
(* Every ChromaDB call (get_or_create_collection, count, delete, add,      *)
(* query, delete_collection) is one atomic step; a Python call that makes  *)
(* several of them is a sequence of steps of the calling thread, so that   *)
(* other threads can run in between.                                       *)
(***************************************************************************)
EXTENDS Integers, Sequences, FiniteSets, TLC

VARIABLES
    collections,    \* ChromaDB: collection name -> (entry id -> entry)
    store_current,  \* VectorStore._current_book (the last sanitized name)
    vs,             \* per thread: the VectorStore call in progress / last made
    current_book,   \* RAGEngine.current_book
    rag,            \* the RAGEngine query in progress / last made
    ct,             \* the chunk_text call in progress / last made
    session         \* st.session_state, and the upload in progress

vars == <<collections, store_current, vs, current_book, rag, ct, session>>

----------------------------------------------------------------------------
(* Bounds of the model *)

\* how many different texts a chunk position can carry (content versions)
MaxVersion == 2
\* how many lines the generation backend sends on one stream at most
MaxLines == 3
\* the largest n_results a direct similarity_search call is given
MaxK == 2
\* the longest word of the letter a in a text given to chunk_text
MaxWord == 3
\* the largest chunk_size and chunk_overlap given to chunk_text
MaxChunkSize == 7
MaxOverlap == 3
\* how many passes of its loop a chunk_text call is followed for
MaxIterations == 8

(* Program constants *)

\* vector_store.py:87  batch_size = 100
batch_size == 100
\* vector_store.py:47  safe_name[:50]
NameCap == 50
\* rag_engine.py:93  history_limit = 20
history_limit == 20
\* rag_engine.py:52/107/144  n_chunks: int = 5
DefaultNChunks == 5

\* Python's None where a string is expected
None == "None"
\* Python's None where a book identifier is expected
NoBook == <<"None">>
\* Python's None where a chat history is expected; Some(h) is the list h
NoHistory == <<>>
Some(h) == <<h>>

Min(a, b) == IF a < b THEN a ELSE b
Max(a, b) == IF a > b THEN a ELSE b
\* the largest element of a non-empty set of integers
Largest(S) == CHOOSE x \in S : \A y \in S : y <= x
\* the smallest element of a non-empty set of integers
Smallest(S) == CHOOSE x \in S : \A y \in S : x <= y

----------------------------------------------------------------------------
(* Book identifiers: Python strings, as sequences of one-character strings *)

Alnum == {"M", "y", "B", "o", "k", "x", "z", "w"}

isalnum(c) == c \in Alnum

\* two identifiers that differ only in a non-alphanumeric character
MyBook  == <<"M", "y", " ", "B", "o", "o", "k", "!">>
MyBookQ == <<"M", "y", " ", "B", "o", "o", "k", "?">>
\* two identifiers that differ only beyond the 50th character
LongName(last) == [p \in 1..(NameCap + 1) |-> IF p <= NameCap THEN "x" ELSE last]
LongZ == LongName("z")
LongW == LongName("w")

Books == {MyBook, MyBookQ, LongZ, LongW}

\* "".join(c if c.isalnum() else "_" for c in book_name)[:50]
Sanitize(book_name) ==
    LET joined == [p \in 1..Len(book_name) |->
                      IF isalnum(book_name[p]) THEN book_name[p] ELSE "_"]
    IN  SubSeq(joined, 1, Min(Len(joined), NameCap))

----------------------------------------------------------------------------
(* Chunks, as create_chunks_with_metadata builds them for a book *)

Versions == 1..MaxVersion

\* the sizes of the loads: none, one chunk, one chunk more than a batch; the
\* books with the long names are only given the small loads
ChunkCounts(book_name) ==
    IF Len(book_name) > NameCap THEN {0, 1} ELSE {0, 1, batch_size + 1}

\* the chunk list of a load: n chunks, the text of position j in version v
Chunks(source, n, v) ==
    [j \in 1..n |->
        [text |-> <<v, j - 1>>,
         metadata |-> [source |-> source, chunk_index |-> j - 1, total_chunks |-> n]]]

EmptyEntries == [x \in {} |-> x]

\* ids = [f"{book_name}_{i}" for i in range(len(chunks))]
EntryId(book_name, i) == <<book_name, i>>

\* the entries of ids[lo:hi], documents[lo:hi], metadatas[lo:hi]
EntriesOf(book_name, chunks, lo, hi) ==
    [id \in {EntryId(book_name, i) : i \in lo..(hi - 1)} |->
        [text |-> chunks[id[2] + 1].text, metadata |-> chunks[id[2] + 1].metadata]]

\* end = min(i + batch_size, len(chunks))
BatchEnd(i, n) == Min(i + batch_size, n)

----------------------------------------------------------------------------
(* ChromaDB, as the code uses it *)

\* client.get_or_create_collection(name)
GetOrCreate(colls, name) ==
    IF name \in DOMAIN colls THEN colls ELSE colls @@ (name :> EmptyEntries)

\* collection.count()
Count(colls, name) == Cardinality(DOMAIN colls[name])

\* collection.add(ids, embeddings, documents, metadatas): ids already there are kept
CollectionAdd(colls, name, batch) ==
    [colls EXCEPT ![name] = @ @@ batch]

\* collection.delete(where={}): "Clear existing documents for this book"
CollectionClear(colls, name) ==
    [colls EXCEPT ![name] = EmptyEntries]

\* client.list_collections() names
list_books == DOMAIN collections

\* the question asked of the index
Queries == {"q1"}

\* cosine distance between the embeddings of the query and of a text: the
\* embedding provider is deterministic (same text, same vector); the texts of
\* the first chunk positions are the nearest to the question
Distance(query, text) == 2 * text[2] + (text[1] - 1)

Hit(content, query, id) ==
    [text |-> content[id].text,
     metadata |-> content[id].metadata,
     distance |-> Distance(query, content[id].text)]

RECURSIVE Nearest(_, _, _, _)
\* collection.query(query_embeddings, n_results): every sequence of the m
\* nearest entries, most similar first
Nearest(content, ids, query, m) ==
    IF m <= 0 \/ ids = {} THEN {<<>>}
    ELSE LET ds == {Distance(query, content[x].text) : x \in ids}
             d0 == CHOOSE d \in ds : \A e \in ds : d <= e
             best == {x \in ids : Distance(query, content[x].text) = d0}
         IN  UNION {{<<Hit(content, query, x)>> \o r :
                        r \in Nearest(content, ids \ {x}, query, m - 1)} : x \in best}

QueryResults(content, query, m) == Nearest(content, DOMAIN content, query, m)

----------------------------------------------------------------------------
(* The calling threads *)

Threads == {"main", "other"}

Resting == {"idle", "returned", "raised"}

\* the entries of the collection a book maps to (none when it does not exist)
ContentOf(colls, name) == IF name \in DOMAIN colls THEN colls[name] ELSE EmptyEntries

IdleCall ==
    [pc |-> "idle", op |-> "none", caller |-> "api", book_name |-> <<>>,
     n |-> 0, v |-> 1, query |-> "q1", n_results |-> 0,
     collection |-> <<>>, existing |-> 0, i |-> 0, embedded |-> FALSE, nres |-> 0,
     ret |-> <<>>, exc |-> None,
     \* the collection as the call found it: whether it existed, its size, and
     \* (for add_documents) its entries
     existed |-> FALSE, before_count |-> 0, before |-> EmptyEntries]

\* the context string: "", the placeholder, or the numbered passages
EmptyContext == [kind |-> "empty", passages |-> <<>>]
NoPassages == [kind |-> "No relevant passages found in the book.", passages |-> <<>>]

IdleRag ==
    [pc |-> "idle", op |-> "none", question |-> "q1", n_chunks |-> 0,
     chat_history |-> NoHistory, context |-> EmptyContext, messages |-> <<>>,
     lines |-> <<>>, out |-> <<>>, response |-> None, exc |-> None,
     \* the current book as the call found it, the calls it has made of
     \* similarity_search, chat and chat_stream, and whether the backend failed
     book |-> NoBook, search_calls |-> 0, chat_calls |-> 0, stream_calls |-> 0,
     backend_failed |-> FALSE,
     \* the arguments of the similarity_search call it has made, if any, and,
     \* when the call repeats the call before it with the other operation, what
     \* that call searched for and sent
     searched |-> <<>>, twin |-> <<>>]

\* a thread may start a call when its previous call is over; the main thread
\* also runs the engine, and makes no other call while a query is in progress
CanCall(t) == vs[t].pc \in Resting /\ (t = "main" => rag.pc \in Resting)

\* the local variables of a VectorStore call that has just resolved its collection
NewCall(op, pc, book_name, safe_name) ==
    [IdleCall EXCEPT !.op = op, !.pc = pc, !.book_name = book_name,
                     !.collection = safe_name,
                     !.existed = safe_name \in DOMAIN collections,
                     !.before_count = Cardinality(DOMAIN ContentOf(collections, safe_name))]

----------------------------------------------------------------------------
(* VectorStore.add_documents *)

\* collection = self.get_or_create_collection(book_name), for any caller
AddDocumentsStart(t, book_name, n, v) ==
    LET safe_name == Sanitize(book_name) IN
        /\ collections' = GetOrCreate(collections, safe_name)
        /\ store_current' = safe_name
        /\ vs' = [vs EXCEPT ![t] =
                    [NewCall("add_documents", "add_count", book_name, safe_name)
                        EXCEPT !.n = n, !.v = v,
                               !.before = ContentOf(collections, safe_name)]]

\* a direct call of add_documents
AddDocuments(t, book_name, n, v) ==
    /\ CanCall(t)
    /\ AddDocumentsStart(t, book_name, n, v)
    /\ UNCHANGED <<current_book, rag, ct, session>>

\* a variant of AddCount that never clears the collection
AddCount_NoClear(t) ==
    /\ vs[t].pc = "add_count"
    /\ vs' = [vs EXCEPT ![t].existing = Count(collections, vs[t].collection),
                        ![t].pc = "add_embed"]
    /\ UNCHANGED <<collections, store_current, current_book, rag, ct, session>>

\* existing = collection.count(); if existing > 0: ...
AddCount(t) ==
    /\ vs[t].pc = "add_count"
    /\ LET existing == Count(collections, vs[t].collection) IN
        vs' = [vs EXCEPT ![t].existing = existing,
                         ![t].pc = IF existing > 0 THEN "add_delete" ELSE "add_embed"]
    /\ UNCHANGED <<collections, store_current, current_book, rag, ct, session>>

\* collection.delete(where={})
AddDelete(t) ==
    /\ vs[t].pc = "add_delete"
    /\ collections' = CollectionClear(collections, vs[t].collection)
    /\ vs' = [vs EXCEPT ![t].pc = "add_embed"]
    /\ UNCHANGED <<store_current, current_book, rag, ct, session>>

\* embeddings = self.embedding_generator.embed_texts(texts): returns or raises
AddEmbed(t) ==
    /\ vs[t].pc = "add_embed"
    /\ \/ vs' = [vs EXCEPT ![t].embedded = TRUE, ![t].i = 0, ![t].pc = "add_batch"]
       \/ vs' = [vs EXCEPT ![t].embedded = TRUE, ![t].exc = "EmbeddingFailure",
                           ![t].pc = "raised"]
    /\ UNCHANGED <<collections, store_current, current_book, rag, ct, session>>

\* one round of: for i in range(0, len(chunks), batch_size): collection.add(...)
AddBatch(t) ==
    /\ vs[t].pc = "add_batch"
    /\ vs[t].i < vs[t].n
    /\ LET call == vs[t]
           end == BatchEnd(call.i, call.n)
           batch == EntriesOf(call.book_name,
                              Chunks(call.book_name, call.n, call.v), call.i, end)
       IN  \/ /\ collections' = CollectionAdd(collections, call.collection, batch)
              /\ vs' = [vs EXCEPT ![t].i = call.i + batch_size]
           \/ /\ vs' = [vs EXCEPT ![t].exc = "IndexFailure", ![t].pc = "raised"]
              /\ UNCHANGED collections
    /\ UNCHANGED <<store_current, current_book, rag, ct, session>>

\* return len(chunks)
AddReturn(t) ==
    /\ vs[t].pc = "add_batch"
    /\ vs[t].i >= vs[t].n
    /\ vs' = [vs EXCEPT ![t].ret = vs[t].n, ![t].pc = "returned",
                        \* the record of the old entries is kept for a failed call only
                        ![t].before = EmptyEntries]
    /\ UNCHANGED <<collections, store_current, current_book, rag, ct, session>>

----------------------------------------------------------------------------
(* VectorStore.similarity_search *)

\* a variant of SearchStart that searches self._collection, the collection
\* the store resolved last, when there is one
SearchStart_Cached(t, caller, book_name, query, n_results) ==
    LET safe_name == IF store_current # NoBook THEN store_current
                     ELSE Sanitize(book_name) IN
        /\ collections' = GetOrCreate(collections, safe_name)
        /\ store_current' = safe_name
        /\ vs' = [vs EXCEPT ![t] =
                    [NewCall("similarity_search", "search_count", book_name, safe_name)
                        EXCEPT !.caller = caller, !.query = query,
                               !.n_results = n_results]]

\* collection = self.get_or_create_collection(book_name), for either caller
SearchStart(t, caller, book_name, query, n_results) ==
    LET safe_name == Sanitize(book_name) IN
        /\ collections' = GetOrCreate(collections, safe_name)
        /\ store_current' = safe_name
        /\ vs' = [vs EXCEPT ![t] =
                    [NewCall("similarity_search", "search_count", book_name, safe_name)
                        EXCEPT !.caller = caller, !.query = query,
                               !.n_results = n_results]]

\* a direct call of similarity_search
SimilaritySearch(t, book_name, query, n_results) ==
    /\ CanCall(t)
    /\ SearchStart(t, "api", book_name, query, n_results)
    /\ UNCHANGED <<current_book, rag, ct, session>>

\* a variant of SearchCount without the early return
SearchCount_NoEmptyCheck(t) ==
    /\ vs[t].pc = "search_count"
    /\ vs' = [vs EXCEPT ![t].pc = "search_embed"]
    /\ UNCHANGED <<collections, store_current, current_book, rag, ct, session>>

\* if collection.count() == 0: return []
SearchCount(t) ==
    /\ vs[t].pc = "search_count"
    /\ IF Count(collections, vs[t].collection) = 0
       THEN vs' = [vs EXCEPT ![t].ret = <<>>, ![t].pc = "returned"]
       ELSE vs' = [vs EXCEPT ![t].pc = "search_embed"]
    /\ UNCHANGED <<collections, store_current, current_book, rag, ct, session>>

\* query_embedding = self.embedding_generator.embed_text(query): returns or raises
SearchEmbed(t) ==
    /\ vs[t].pc = "search_embed"
    /\ \/ vs' = [vs EXCEPT ![t].embedded = TRUE, ![t].pc = "search_nresults"]
       \/ vs' = [vs EXCEPT ![t].embedded = TRUE, ![t].exc = "EmbeddingFailure",
                           ![t].pc = "raised"]
    /\ UNCHANGED <<collections, store_current, current_book, rag, ct, session>>

\* the argument n_results=min(n_results, collection.count())
SearchNResults(t) ==
    /\ vs[t].pc = "search_nresults"
    /\ vs' = [vs EXCEPT ![t].nres = Min(vs[t].n_results,
                                        Count(collections, vs[t].collection)),
                        ![t].pc = "search_query"]
    /\ UNCHANGED <<collections, store_current, current_book, rag, ct, session>>

\* results = collection.query(...), formatted and returned; the query raises
\* when asked for no result, or when the index backend fails
SearchQuery(t) ==
    /\ vs[t].pc = "search_query"
    /\ \/ /\ vs[t].nres > 0
          /\ \E r \in QueryResults(collections[vs[t].collection],
                                   vs[t].query, vs[t].nres) :
                vs' = [vs EXCEPT ![t].ret = r, ![t].pc = "returned"]
       \/ vs' = [vs EXCEPT ![t].exc = "IndexFailure", ![t].pc = "raised"]
    /\ UNCHANGED <<collections, store_current, current_book, rag, ct, session>>

----------------------------------------------------------------------------
(* VectorStore.delete_book *)

\* client.delete_collection(name): raises when there is no such collection
DeleteCollection(colls, name) ==
    [c \in DOMAIN colls \ {name} |-> colls[c]]

\* a variant of DeleteBook that deletes by the identifier as given
DeleteBook_RawName(t, book_name) ==
    /\ CanCall(t)
    /\ LET call == NewCall("delete_book", "returned", book_name, book_name)
       IN  IF book_name \in DOMAIN collections
           THEN /\ collections' = DeleteCollection(collections, book_name)
                /\ vs' = [vs EXCEPT ![t] = [call EXCEPT !.ret = TRUE]]
           ELSE /\ collections' = collections
                /\ vs' = [vs EXCEPT ![t] = [call EXCEPT !.ret = FALSE]]
    /\ UNCHANGED <<store_current, current_book, rag, ct, session>>

\* try: delete_collection(safe_name); return True / except Exception: return False
DeleteBookCall(t, book_name) ==
    LET safe_name == Sanitize(book_name)
        call == NewCall("delete_book", "returned", book_name, safe_name)
    IN  IF safe_name \in DOMAIN collections
        THEN /\ collections' = DeleteCollection(collections, safe_name)
             /\ vs' = [vs EXCEPT ![t] = [call EXCEPT !.ret = TRUE]]
        ELSE /\ collections' = collections
             /\ vs' = [vs EXCEPT ![t] = [call EXCEPT !.ret = FALSE]]

\* a direct call of delete_book
DeleteBook(t, book_name) ==
    /\ CanCall(t)
    /\ DeleteBookCall(t, book_name)
    /\ UNCHANGED <<store_current, current_book, rag, ct, session>>

----------------------------------------------------------------------------
(* RAGEngine *)

NoBookMessage == "Please upload a book first before asking questions."


\* Python's truth value of current_book: None and "" are false
Truthy(book_name) == book_name # NoBook /\ book_name # <<>>

\* a caller's chat history of m messages, user and assistant in turn
History(m) ==
    [j \in 1..m |-> [role |-> IF j % 2 = 1 THEN "user" ELSE "assistant",
                     content |-> <<"turn", j>>]]

Histories == {NoHistory, Some(History(0)), Some(History(1)),
              Some(History(history_limit)), Some(History(history_limit + 1))}

\* "\n\n".join(f"[Passage {i}]\n{chunk['text']}" for i, chunk in enumerate(chunks, 1))
Passages(chunks) ==
    [kind |-> "passages",
     passages |-> [j \in 1..Len(chunks) |-> [passage |-> j, text |-> chunks[j].text]]]

\* a variant of RecentHistory that keeps the oldest messages
RecentHistory_Oldest(chat_history) ==
    SubSeq(chat_history, 1, Min(Len(chat_history), history_limit))

\* chat_history[-history_limit:] if chat_history else []
RecentHistory(chat_history) ==
    IF Len(chat_history) = 0 THEN <<>>
    ELSE SubSeq(chat_history,
                IF Len(chat_history) > history_limit
                THEN Len(chat_history) - history_limit + 1 ELSE 1,
                Len(chat_history))

\* _build_messages(query, chat_history, context)
BuildMessages(query, chat_history, context) ==
    <<[role |-> "system", content |-> <<"SYSTEM_PROMPT", context>>]>>
    \o RecentHistory(chat_history)
    \o <<[role |-> "user", content |-> <<"question", query>>]>>

\* chat_history or []
OrEmpty(chat_history) == IF chat_history = NoHistory THEN <<>> ELSE chat_history[1]

\* self.current_book = book_name
SetBook(book_name) ==
    /\ CanCall("main")
    /\ current_book' = book_name
    /\ UNCHANGED <<collections, store_current, vs, rag, ct, session>>

NewQuery(op, question, chat_history, n_chunks) ==
    [IdleRag EXCEPT !.op = op, !.question = question, !.chat_history = chat_history,
                    !.n_chunks = n_chunks, !.book = current_book]

\* query: self._build_context(question, n_chunks)
QueryContextArgs(call) == [query |-> call.question, n_chunks |-> call.n_chunks]

\* a variant of QueryStreamContextArgs that leaves n_chunks to its default
QueryStreamContextArgs_Default(call) ==
    [query |-> call.question, n_chunks |-> DefaultNChunks]

\* query_stream: self._build_context(question, n_chunks)
QueryStreamContextArgs(call) == [query |-> call.question, n_chunks |-> call.n_chunks]

\* query: self._build_messages(query=question, chat_history=chat_history or [],
\* context=context)
QueryMessages(call, context) ==
    BuildMessages(call.question, OrEmpty(call.chat_history), context)

\* query_stream: self._build_messages(query=question,
\* chat_history=chat_history or [], context=context)
QueryStreamMessages(call, context) ==
    BuildMessages(call.question, OrEmpty(call.chat_history), context)

\* the two calls as the operation in progress makes them
ContextArgs(call) ==
    IF call.op = "query" THEN QueryContextArgs(call) ELSE QueryStreamContextArgs(call)

Messages(call, context) ==
    IF call.op = "query" THEN QueryMessages(call, context)
    ELSE QueryStreamMessages(call, context)

\* query, from the check of current_book to its first call
QueryStart(call) ==
    IF ~Truthy(current_book)
    THEN [call EXCEPT !.response = NoBookMessage, !.pc = "returned"]
    ELSE [call EXCEPT !.pc = "build_context"]

\* query_stream, from the check of current_book to its first yield or call
QueryStreamStart(call) ==
    IF ~Truthy(current_book)
    THEN [call EXCEPT !.out = <<NoBookMessage>>, !.pc = "yielded_no_book"]
    ELSE [call EXCEPT !.pc = "build_context"]

\* query(question, model, chat_history, n_chunks), up to its first call
Query(question, chat_history, n_chunks) ==
    /\ CanCall("main")
    /\ rag' = QueryStart(NewQuery("query", question, chat_history, n_chunks))
    /\ UNCHANGED <<collections, store_current, vs, current_book, ct, session>>

\* a variant of QueryStream without the check of current_book
QueryStream_NoGuard(question, chat_history, n_chunks) ==
    /\ CanCall("main")
    /\ rag' = [NewQuery("query_stream", question, chat_history, n_chunks)
                  EXCEPT !.pc = "build_context"]
    /\ UNCHANGED <<collections, store_current, vs, current_book, ct, session>>

\* query_stream(question, model, chat_history, n_chunks), pulled for the first
\* time: up to its first yield or its first call
QueryStream(question, chat_history, n_chunks) ==
    /\ CanCall("main")
    /\ rag' = QueryStreamStart(NewQuery("query_stream", question, chat_history, n_chunks))
    /\ UNCHANGED <<collections, store_current, vs, current_book, ct, session>>

\* the engine is as the call just made found it: the same current book, and
\* no call has changed the index since its search
SameEngineState ==
    /\ rag.book = current_book
    /\ rag.searched # <<>> => vs["main"].caller = "rag"

\* what a call searched for and sent
Twin(call) == <<[searched |-> call.searched, messages |-> call.messages]>>

\* query_stream with the arguments of the query call just made
QueryStreamAfterQuery ==
    /\ CanCall("main")
    /\ rag.op = "query"
    /\ SameEngineState
    /\ rag' = QueryStreamStart(
                [NewQuery("query_stream", rag.question, rag.chat_history, rag.n_chunks)
                    EXCEPT !.twin = Twin(rag)])
    /\ UNCHANGED <<collections, store_current, vs, current_book, ct, session>>

\* query with the arguments of the query_stream call just made
QueryAfterQueryStream ==
    /\ CanCall("main")
    /\ rag.op = "query_stream"
    /\ SameEngineState
    /\ rag' = QueryStart(
                [NewQuery("query", rag.question, rag.chat_history, rag.n_chunks)
                    EXCEPT !.twin = Twin(rag)])
    /\ UNCHANGED <<collections, store_current, vs, current_book, ct, session>>

\* the return after: yield "Please upload a book first ..."
QueryStreamNoBookReturn ==
    /\ rag.pc = "yielded_no_book"
    /\ rag' = [rag EXCEPT !.pc = "returned"]
    /\ UNCHANGED <<collections, store_current, vs, current_book, ct, session>>

\* _build_context: return "" without a book, else call similarity_search
BuildContextSearch ==
    /\ rag.pc = "build_context"
    /\ IF ~Truthy(current_book)
       THEN /\ rag' = [rag EXCEPT !.context = EmptyContext,
                                  !.messages = Messages(rag, EmptyContext),
                                  !.pc = "dispatch"]
            /\ UNCHANGED <<collections, store_current, vs>>
       ELSE /\ SearchStart("main", "rag", current_book, ContextArgs(rag).query,
                           ContextArgs(rag).n_chunks)
            /\ rag' = [rag EXCEPT !.search_calls = @ + 1,
                                  !.searched = <<[query |-> ContextArgs(rag).query,
                                                  book_name |-> current_book,
                                                  n_results |-> ContextArgs(rag).n_chunks]>>,
                                  !.pc = "retrieving"]
    /\ UNCHANGED <<current_book, ct, session>>

\* similarity_search has returned: the rest of _build_context, and _build_messages
BuildContextReturn ==
    /\ rag.pc = "retrieving"
    /\ vs["main"].pc = "returned"
    /\ LET chunks == vs["main"].ret
           context == IF chunks = <<>> THEN NoPassages ELSE Passages(chunks)
       IN  rag' = [rag EXCEPT !.context = context,
                              !.messages = Messages(rag, context),
                              !.pc = "dispatch"]
    /\ UNCHANGED <<collections, store_current, vs, current_book, ct, session>>

\* similarity_search has raised: nothing catches it in _build_context, query or
\* query_stream
BuildContextRaise ==
    /\ rag.pc = "retrieving"
    /\ vs["main"].pc = "raised"
    /\ rag' = [rag EXCEPT !.exc = vs["main"].exc, !.pc = "raised"]
    /\ UNCHANGED <<collections, store_current, vs, current_book, ct, session>>

Answers == {"answer"}

\* response = self.ollama_client.chat(model, messages): the text, or ConnectionError
Chat ==
    /\ rag.pc = "dispatch"
    /\ rag.op = "query"
    /\ \/ \E a \in Answers :
            rag' = [rag EXCEPT !.chat_calls = @ + 1, !.response = a, !.pc = "returned"]
       \/ rag' = [rag EXCEPT !.chat_calls = @ + 1, !.backend_failed = TRUE,
                             !.exc = "ConnectionError", !.pc = "raised"]
    /\ UNCHANGED <<collections, store_current, vs, current_book, ct, session>>

\* chat_stream(model, messages) up to the response of requests.post
ChatStream ==
    /\ rag.pc = "dispatch"
    /\ rag.op = "query_stream"
    /\ \/ rag' = [rag EXCEPT !.stream_calls = @ + 1, !.pc = "streaming"]
       \/ rag' = [rag EXCEPT !.stream_calls = @ + 1, !.backend_failed = TRUE,
                             !.exc = "ConnectionError", !.pc = "raised"]
    /\ UNCHANGED <<collections, store_current, vs, current_book, ct, session>>

\* the content of a line of the response: a fragment, or nothing
LineContents == {"", "The ", "cat ", "sat."}

\* a variant of StreamLine that does not yield a fragment equal to the last one
StreamLine_NoRepeat ==
    /\ rag.pc = "streaming"
    /\ Len(rag.lines) < MaxLines
    /\ \E content \in LineContents :
          rag' = [rag EXCEPT !.lines = Append(@, content),
                             !.out = IF content # "" /\ (@ = <<>> \/ @[Len(@)] # content)
                                     THEN Append(@, content) ELSE @]
    /\ UNCHANGED <<collections, store_current, vs, current_book, ct, session>>

\* one line of response.iter_lines(): chat_stream yields its content when it
\* is not empty, and query_stream yields it on
StreamLine ==
    /\ rag.pc = "streaming"
    /\ Len(rag.lines) < MaxLines
    /\ \E content \in LineContents :
          rag' = [rag EXCEPT !.lines = Append(@, content),
                             !.out = IF content # "" THEN Append(@, content) ELSE @]
    /\ UNCHANGED <<collections, store_current, vs, current_book, ct, session>>

\* the response ends: both generators return
StreamEnd ==
    /\ rag.pc = "streaming"
    /\ rag' = [rag EXCEPT !.pc = "returned"]
    /\ UNCHANGED <<collections, store_current, vs, current_book, ct, session>>

\* the response breaks: chat_stream raises ConnectionError, query_stream lets it pass
StreamFail ==
    /\ rag.pc = "streaming"
    /\ rag' = [rag EXCEPT !.backend_failed = TRUE, !.exc = "ConnectionError",
                          !.pc = "raised"]
    /\ UNCHANGED <<collections, store_current, vs, current_book, ct, session>>

----------------------------------------------------------------------------
(* text_processor.py: texts are Python strings, as sequences of             *)
(* one-character strings                                                   *)

\* the characters \s matches
Whitespace == {" ", "\n"}

\* the characters \w matches, as far as the texts of the model use them
WordChars == {"a", "b", "c", "d", "e", "h", "i", "k", "l", "m", "n", "o", "r", "s",
              "t", "w", "y", "A", "B", "T"}

\* the punctuation preprocess_text keeps: .,!?;:'"()-
Punctuation == {".", ",", "!", "?", ";", ":", "'", "\"", "(", ")", "-"}

\* re.sub(r'\s+', ' ', text): of every run of whitespace the first character
\* stays, as a space
CollapseWhitespace(text) ==
    LET marked == [i \in 1..Len(text) |->
                    [c |-> IF text[i] \in Whitespace THEN " " ELSE text[i],
                     stays |-> \/ text[i] \notin Whitespace
                               \/ i = 1
                               \/ text[i - 1] \notin Whitespace]]
        Stays(m) == m.stays
        kept == SelectSeq(marked, Stays)
    IN  [i \in 1..Len(kept) |-> kept[i].c]

\* re.sub(r'[^\w\s.,!?;:\'"()-]', '', text)
RemoveSpecial(text) ==
    LET Kept(c) == c \in WordChars \cup Whitespace \cup Punctuation
    IN  SelectSeq(text, Kept)

\* str.strip()
Strip(text) ==
    IF \A i \in 1..Len(text) : text[i] \in Whitespace THEN <<>>
    ELSE LET first == CHOOSE i \in 1..Len(text) :
                        /\ text[i] \notin Whitespace
                        /\ \A j \in 1..(i - 1) : text[j] \in Whitespace
             last == CHOOSE i \in 1..Len(text) :
                        /\ text[i] \notin Whitespace
                        /\ \A j \in (i + 1)..Len(text) : text[j] \in Whitespace
         IN  SubSeq(text, first, last)

\* preprocess_text(text); the replace of \r\n and \r finds nothing to replace
\* once every run of whitespace is a space
preprocess_text(text) == Strip(RemoveSpecial(CollapseWhitespace(text)))

\* where Python's text[i:...] or text[...:i] falls, as an offset in 0..len(text)
SliceBound(text, i) ==
    IF i < 0 THEN Max(i + Len(text), 0) ELSE Min(i, Len(text))

\* Python's text[i:j]
Slice(text, i, j) ==
    LET lo == SliceBound(text, i)
        hi == SliceBound(text, j)
    IN  IF lo < hi THEN SubSeq(text, lo + 1, hi) ELSE <<>>

\* Python's text.rfind(pattern)
rfind(text, pattern) ==
    LET hits == {p \in 0..(Len(text) - Len(pattern)) :
                    SubSeq(text, p + 1, p + Len(pattern)) = pattern}
    IN  IF hits = {} THEN -1 ELSE Largest(hits)

\* text_processor.py:64/65  the neighbourhood searched for a sentence end
SearchRadius == 100

\* text_processor.py:70  ['. ', '! ', '? ', '\n']
SentenceEnds == {<<".", " ">>, <<"!", " ">>, <<"?", " ">>, <<"\n">>}

\* actual_pos = search_start + pos + len(pattern)
ActualPos(search_start, pos, pattern) == search_start + pos + Len(pattern)

\* the actual_pos of every sentence end found in the neighbourhood of the
\* proposed end; best_break is the largest of them
BreakCandidates(text, start, chunk_size) ==
    LET search_start == Max(start + chunk_size - SearchRadius, start)
        search_end == Min(start + chunk_size + SearchRadius, Len(text))
        search_text == Slice(text, search_start, search_end)
    IN  {ActualPos(search_start, rfind(search_text, pattern), pattern) :
            pattern \in {p \in SentenceEnds : rfind(search_text, p) # -1}}

\* the end of the window that starts at start: start + chunk_size, or the
\* best_break when there is one, it is not 0 and it lies after start
WindowEnd(text, start, chunk_size) ==
    LET end == start + chunk_size
        found == BreakCandidates(text, start, chunk_size)
    IN  IF end < Len(text) /\ found # {} /\ Largest(found) # 0 /\ Largest(found) > start
        THEN Largest(found)
        ELSE end

\* no chunk_text call has been made
IdleChunking ==
    [pc |-> "idle", arg |-> <<>>, text |-> <<>>, chunk_size |-> 0, chunk_overlap |-> 0,
     start |-> 0, chunks |-> <<>>, windows |-> <<>>]

\* chunk_text(text, chunk_size, chunk_overlap) up to the while loop
ChunkTextCall(text, chunk_size, chunk_overlap) ==
    LET call == [IdleChunking EXCEPT !.arg = text, !.chunk_size = chunk_size,
                                     !.chunk_overlap = chunk_overlap]
    IN  IF text = <<>>
        THEN [call EXCEPT !.pc = "returned"]
        ELSE [call EXCEPT !.text = preprocess_text(text),
                          !.pc = IF 0 < Len(preprocess_text(text)) THEN "loop"
                                 ELSE "returned"]

\* one pass of the while loop, as a function of the state of the call: the
\* window [start, end) is cut, its stripped text is appended unless empty,
\* start moves to end - chunk_overlap, and the loop is left when start has
\* reached the end of the text
ChunkIteration(c) ==
    LET end == WindowEnd(c.text, c.start, c.chunk_size)
        chunk == Strip(Slice(c.text, c.start, end))
        next_start == end - c.chunk_overlap
    IN  [c EXCEPT !.chunks = IF chunk # <<>> THEN Append(@, chunk) ELSE @,
                  !.windows = Append(@, [start |-> c.start, end |-> end]),
                  !.start = next_start,
                  !.pc = IF next_start >= Len(c.text) THEN "returned" ELSE "loop"]

\* chunk_text, as far as it gets in MaxIterations passes of its loop
RECURSIVE RunChunkText(_)
RunChunkText(c) ==
    IF c.pc # "loop" \/ Len(c.windows) >= MaxIterations THEN c
    ELSE RunChunkText(ChunkIteration(c))

\* the texts given to chunk_text: up to three words of the letter a, with a
\* gap after the first and after the second
Word(n) == [j \in 1..n |-> "a"]

Gaps == {<<" ">>, <<".", " ">>, <<" ", "#", " ", "#", " ">>, <<"?", "\n">>}

Texts ==
    {Word(w[1]) \o g[1] \o Word(w[2]) \o g[2] \o Word(w[3]) :
        w \in (0..MaxWord) \X (0..MaxWord) \X (0..MaxWord), g \in Gaps \X Gaps}

\* the text of the first end-to-end scenario
AliceText ==
    <<"A", "l", "i", "c", "e", " ", "m", "e", "t", " ", "B", "o", "b", ".", " ", "T",
      "h", "e", "y", " ", "w", "e", "n", "t", " ", "t", "o", " ", "t", "h", "e", " ",
      "m", "a", "r", "k", "e", "t", ".", " ", "T", "h", "e", " ", "m", "a", "r", "k",
      "e", "t", " ", "w", "a", "s", " ", "c", "l", "o", "s", "e", "d", ".">>

\* text_processor.py:95  chunk_size: int = 1000
DefaultChunkSize == 1000
\* text_processor.py:96  chunk_overlap: int = 200
DefaultChunkOverlap == 200

\* the calls of chunk_text: every text with small sizes and overlaps, the
\* empty text, and the first scenario with chunk size 40 and overlap 10
ChunkCalls ==
    ((Texts \cup {<<>>}) \X (1..MaxChunkSize) \X (0..MaxOverlap))
    \cup {<<AliceText, 40, 10>>}

\* the call in progress makes one pass of its while loop
ChunkLoop ==
    /\ ct.pc = "loop"
    /\ Len(ct.windows) < MaxIterations
    /\ ct' = ChunkIteration(ct)
    /\ UNCHANGED <<collections, store_current, vs, current_book, rag, session>>

----------------------------------------------------------------------------
(* app.py: the session of the web application *)

\* app.py:274  chunk_size=2000 for the pages of the reader
PageChunkSize == 2000

\* create_chunks_with_metadata(text, source), with the default sizes
create_chunks_with_metadata(text, source) ==
    LET chunks == RunChunkText(
                    ChunkTextCall(text, DefaultChunkSize, DefaultChunkOverlap)).chunks
    IN  [j \in 1..Len(chunks) |->
            [text |-> chunks[j],
             metadata |-> [source |-> source, chunk_index |-> j - 1,
                           total_chunks |-> Len(chunks)]]]

\* the fields of st.session_state a book load writes
SessionFields(ses, engine_book) ==
    [book_text |-> ses.book_text, book_pages |-> ses.book_pages,
     current_page |-> ses.current_page, current_book |-> ses.current_book,
     engine_book |-> engine_book, book_loaded |-> ses.book_loaded,
     messages |-> ses.messages]

\* st.session_state after init_session_state; pc, upload, result and before
\* follow process_uploaded_file: where it is, the book name it loads, what it
\* has returned last ("None" once another handler has run), and the fields
\* as it found them
NewSession ==
    [pc |-> "idle", messages |-> <<>>, current_book |-> NoBook, book_loaded |-> FALSE,
     book_text |-> <<>>, book_pages |-> <<>>, current_page |-> 0,
     upload |-> <<>>, result |-> "None",
     before |-> [book_text |-> <<>>, book_pages |-> <<>>, current_page |-> 0,
                 current_book |-> NoBook, engine_book |-> NoBook,
                 book_loaded |-> FALSE, messages |-> <<>>]]

\* the texts extracted from uploaded files: blank, nothing but special
\* characters, two short texts, and a text one character longer than a page
BlankText == <<" ", "\n">>
SymbolText == <<"#", " ", "#">>
ShortText == <<"a", ".", " ", "a">>
LongText == Word(PageChunkSize + 1)

UploadTexts == {BlankText, SymbolText, ShortText, LongText}

\* the uploaded files: the name without its extension, whether
\* load_from_bytes extracts a text from it or raises, and the text
UploadedFiles ==
    {[stem |-> MyBook, loads |-> FALSE, text |-> <<>>]}
    \cup {[stem |-> MyBook, loads |-> TRUE, text |-> x] : x \in UploadTexts}
    \cup {[stem |-> <<"x">>, loads |-> TRUE, text |-> ShortText]}

\* chunk_text(text, chunk_size=2000, chunk_overlap=0) of every uploaded text
PagesOf ==
    [text \in UploadTexts |-> RunChunkText(ChunkTextCall(text, PageChunkSize, 0)).chunks]

\* how many chunks create_chunks_with_metadata makes of every uploaded text
ChunkCountOf ==
    [text \in UploadTexts |-> Len(create_chunks_with_metadata(text, <<>>))]

\* process_uploaded_file(uploaded_file) up to its call of add_documents, or to
\* its return when it does not get there
Upload(file) ==
    /\ session.pc = "idle"
    /\ CanCall("main")
    /\ LET text == file.text
           book_name == file.stem
           pages == PagesOf[text]
           chunks == ChunkCountOf[text]
           found == [session EXCEPT !.before = SessionFields(session, current_book),
                                    !.upload = book_name]
           read == [found EXCEPT !.book_text = text, !.book_pages = pages,
                                 !.current_page = 0]
       IN  IF ~file.loads \/ Strip(text) = <<>>
           THEN /\ session' = [found EXCEPT !.result = "False"]
                /\ UNCHANGED <<collections, store_current, vs>>
           ELSE IF chunks = 0
           THEN /\ session' = [read EXCEPT !.result = "False"]
                /\ UNCHANGED <<collections, store_current, vs>>
           ELSE /\ AddDocumentsStart("main", book_name, chunks, 1)
                /\ session' = [read EXCEPT !.result = "None", !.pc = "indexing"]
    /\ UNCHANGED <<current_book, rag, ct>>

\* add_documents has returned: the rest of process_uploaded_file
UploadIndexed ==
    /\ session.pc = "indexing"
    /\ vs["main"].pc = "returned"
    /\ session' = [session EXCEPT !.current_book = session.upload,
                                  !.book_loaded = TRUE,
                                  !.messages = <<>>,
                                  !.result = "True",
                                  !.pc = "idle"]
    /\ current_book' = session.upload
    /\ UNCHANGED <<collections, store_current, vs, rag, ct>>

\* add_documents has raised: except Exception: return False
UploadFailed ==
    /\ session.pc = "indexing"
    /\ vs["main"].pc = "raised"
    /\ session' = [session EXCEPT !.result = "False", !.pc = "idle"]
    /\ UNCHANGED <<collections, store_current, vs, current_book, rag, ct>>

\* the Close Book button
CloseBook ==
    /\ session.pc = "idle"
    /\ session.book_loaded
    /\ CanCall("main")
    /\ DeleteBookCall("main", session.current_book)
    /\ session' = [session EXCEPT !.current_book = NoBook,
                                  !.book_loaded = FALSE,
                                  !.book_text = <<>>,
                                  !.book_pages = <<>>,
                                  !.messages = <<>>,
                                  !.result = "None"]
    /\ UNCHANGED <<store_current, current_book, rag, ct>>

\* render_book_reader is shown for a loaded book; a button or the page
\* selector sets current_page
TurnTo(page) ==
    /\ session.pc = "idle"
    /\ session.book_loaded
    /\ session' = [session EXCEPT !.current_page = page, !.result = "None"]
    /\ UNCHANGED <<collections, store_current, vs, current_book, rag, ct>>

\* the buttons to the first and the previous page, disabled on page 0
FirstPage ==
    /\ session.current_page # 0
    /\ TurnTo(0)

PreviousPage ==
    /\ session.current_page # 0
    /\ TurnTo(Max(0, session.current_page - 1))

\* the page selector: range(1, total + 1), index=current
SelectPage ==
    \E page_num \in 1..Len(session.book_pages) :
        /\ session.current_page \in 0..(Len(session.book_pages) - 1)
        /\ page_num - 1 # session.current_page
        /\ TurnTo(page_num - 1)

\* the buttons to the next and the last page, disabled on the last page
NextPage ==
    /\ session.current_page < Len(session.book_pages) - 1
    /\ TurnTo(Min(Len(session.book_pages) - 1, session.current_page + 1))

LastPage ==
    /\ session.current_page < Len(session.book_pages) - 1
    /\ TurnTo(Len(session.book_pages) - 1)

----------------------------------------------------------------------------
(* The vector index used by one caller at a time *)

Init ==
    /\ collections = [c \in {} |-> EmptyEntries]
    /\ store_current = NoBook
    /\ vs = [t \in Threads |-> IdleCall]
    /\ current_book = NoBook
    /\ rag = IdleRag
    /\ ct = IdleChunking
    /\ session = NewSession

Next ==
    \/ \E b \in Books : \E n \in ChunkCounts(b), v \in Versions :
            AddDocuments("main", b, n, v)
    \/ AddCount("main")
    \/ AddDelete("main")
    \/ AddEmbed("main")
    \/ AddBatch("main")
    \/ AddReturn("main")
    \/ \E b \in Books, q \in Queries, k \in 1..MaxK : SimilaritySearch("main", b, q, k)
    \/ SearchCount("main")
    \/ SearchEmbed("main")
    \/ SearchNResults("main")
    \/ SearchQuery("main")
    \/ \E b \in Books : DeleteBook("main", b)

Spec == Init /\ [][Next]_vars

----------------------------------------------------------------------------
(* The index shared by two threads: "main" loads a book while "other" searches *)

SharedBooks == {MyBook}

NextShared ==
    \/ \E b \in SharedBooks : \E n \in ChunkCounts(b), v \in Versions :
            AddDocuments("main", b, n, v)
    \/ AddCount("main")
    \/ AddDelete("main")
    \/ AddEmbed("main")
    \/ AddBatch("main")
    \/ AddReturn("main")
    \/ \E b \in SharedBooks, q \in Queries, k \in 1..MaxK :
            SimilaritySearch("other", b, q, k)
    \/ SearchCount("other")
    \/ SearchEmbed("other")
    \/ SearchNResults("other")
    \/ SearchQuery("other")

SpecShared == Init /\ [][NextShared]_vars

----------------------------------------------------------------------------
(* The engine over the index: books are loaded and set, questions are asked *)

RagBooks == {MyBook}

RagChunkCounts == {0, 1}

NextRag ==
    \/ \E b \in RagBooks, n \in RagChunkCounts : AddDocuments("main", b, n, 1)
    \/ AddCount("main")
    \/ AddDelete("main")
    \/ AddEmbed("main")
    \/ AddBatch("main")
    \/ AddReturn("main")
    \/ \E b \in RagBooks \cup {<<>>} : SetBook(b)
    \/ \E q \in Queries, h \in Histories, k \in {1, DefaultNChunks} : Query(q, h, k)
    \/ \E q \in Queries, h \in Histories, k \in {1, DefaultNChunks} : QueryStream(q, h, k)
    \/ QueryStreamNoBookReturn
    \/ BuildContextSearch
    \/ SearchCount("main")
    \/ SearchEmbed("main")
    \/ SearchNResults("main")
    \/ SearchQuery("main")
    \/ BuildContextReturn
    \/ BuildContextRaise
    \/ Chat
    \/ ChatStream
    \/ StreamLine
    \/ StreamEnd
    \/ StreamFail

SpecRag == Init /\ [][NextRag]_vars

----------------------------------------------------------------------------
(* The engine asked the same question twice, once with query and once with  *)
(* query_stream; the backend streams no fragments                           *)

NextTwin ==
    \/ \E b \in RagBooks, n \in RagChunkCounts : AddDocuments("main", b, n, 1)
    \/ AddCount("main")
    \/ AddDelete("main")
    \/ AddEmbed("main")
    \/ AddBatch("main")
    \/ AddReturn("main")
    \/ \E b \in RagBooks \cup {<<>>} : SetBook(b)
    \/ \E q \in Queries, h \in Histories, k \in {1, DefaultNChunks} : Query(q, h, k)
    \/ \E q \in Queries, h \in Histories, k \in {1, DefaultNChunks} : QueryStream(q, h, k)
    \/ QueryStreamAfterQuery
    \/ QueryAfterQueryStream
    \/ QueryStreamNoBookReturn
    \/ BuildContextSearch
    \/ SearchCount("main")
    \/ SearchEmbed("main")
    \/ SearchNResults("main")
    \/ SearchQuery("main")
    \/ BuildContextReturn
    \/ BuildContextRaise
    \/ Chat
    \/ ChatStream
    \/ StreamEnd
    \/ StreamFail

SpecTwin == Init /\ [][NextTwin]_vars

----------------------------------------------------------------------------
(* The web application: books are uploaded, read and closed *)

NextApp ==
    \/ \E file \in UploadedFiles : Upload(file)
    \/ AddCount("main")
    \/ AddDelete("main")
    \/ AddEmbed("main")
    \/ AddBatch("main")
    \/ AddReturn("main")
    \/ UploadIndexed
    \/ UploadFailed
    \/ CloseBook
    \/ FirstPage
    \/ PreviousPage
    \/ SelectPage
    \/ NextPage
    \/ LastPage

SpecApp == Init /\ [][NextApp]_vars

----------------------------------------------------------------------------
(* The chunker alone: one call of chunk_text, from its arguments on *)

InitChunk ==
    /\ collections = [c \in {} |-> EmptyEntries]
    /\ store_current = NoBook
    /\ vs = [t \in Threads |-> IdleCall]
    /\ current_book = NoBook
    /\ rag = IdleRag
    /\ ct \in {ChunkTextCall(call[1], call[2], call[3]) : call \in ChunkCalls}
    /\ session = NewSession

NextChunk == ChunkLoop

SpecChunk == InitChunk /\ [][NextChunk]_vars

----------------------------------------------------------------------------
(* The claims *)

\* the VectorStore call of the one caller of Spec and SpecRag
Call == vs["main"]

\* every entry a load of n chunks of version v is to leave in the book's collection
LoadedEntries(book_name, n, v) ==
    [id \in {<<book_name, i>> : i \in 0..(n - 1)} |->
        [text |-> <<v, id[2]>>,
         metadata |-> [source |-> book_name, chunk_index |-> id[2], total_chunks |-> n]]]

\* C1: when add_documents fails (the embedding or an insert raises), a
\* collection that held entries before the call still holds exactly those entries.
C1_FailedAddKeepsCollection ==
    (Call.op = "add_documents" /\ Call.pc = "raised" /\ Call.before_count > 0)
        => collections[Call.collection] = Call.before

\* C2: every read a similarity_search makes of a collection (its two counts and
\* its query) while an add_documents of another thread is in progress on that
\* collection finds the complete old entries or the complete new entries.
C2_SearchSeesOldOrNew ==
    [][\A s \in Threads, w \in Threads :
          ( /\ s # w
            /\ vs[s].pc \in {"search_count", "search_nresults", "search_query"}
            /\ vs'[s].pc # vs[s].pc
            /\ vs[w].op = "add_documents"
            /\ vs[w].pc \notin Resting
            /\ vs[w].collection = vs[s].collection )
          => collections[vs[s].collection]
                \in {vs[w].before, LoadedEntries(vs[w].book_name, vs[w].n, vs[w].v)}]_vars

\* C3: when add_documents(chunks, book) has returned, the book's collection
\* holds exactly the entries book_0 .. book_(n-1) of that call, n of them, with
\* the texts and metadata of that call, and the call has returned n.
C3_AddReplacesCollection ==
    (Call.op = "add_documents" /\ Call.pc = "returned")
        => /\ collections[Call.collection]
                = LoadedEntries(Call.book_name, Call.n, Call.v)
           /\ Cardinality(DOMAIN collections[Call.collection]) = Call.n
           /\ Call.ret = Call.n

\* C3 happens: a load of more than one batch has replaced the entries of an
\* earlier load
C3_Witness ==
    /\ Call.op = "add_documents"
    /\ Call.pc = "returned"
    /\ Call.before_count > 0
    /\ Call.n > batch_size

\* C4, as claimed: similarity_search(query, A) returns no entry whose metadata
\* source is another book than A.
C4_SearchNeverCrossesBooks ==
    (Call.op = "similarity_search" /\ Call.pc = "returned")
        => \A j \in 1..Len(Call.ret) : Call.ret[j].metadata.source = Call.book_name

\* C4, amended: similarity_search(query, A) returns no entry whose metadata
\* source is a book with another sanitized name than A's.
C4_SearchNeverCrossesCollections ==
    (Call.op = "similarity_search" /\ Call.pc = "returned")
        => \A j \in 1..Len(Call.ret) :
              Sanitize(Call.ret[j].metadata.source) = Sanitize(Call.book_name)

\* C4 happens: a search has returned entries while the collection of another
\* book holds entries too
C4_Witness ==
    /\ Call.op = "similarity_search"
    /\ Call.pc = "returned"
    /\ Len(Call.ret) > 0
    /\ \E c \in DOMAIN collections : c # Call.collection /\ Count(collections, c) > 0

\* C5: similarity_search(query, book, k) returns at most min(k, size of the
\* book's collection) matches; on an empty or unknown collection it returns the
\* empty sequence, does not raise and does not call the embedding provider.
C5_SearchBounded ==
    (Call.op = "similarity_search" /\ Call.pc \in {"returned", "raised"})
        => /\ Call.pc = "returned"
                => Len(Call.ret) <= Min(Call.n_results, Call.before_count)
           /\ Call.before_count = 0
                => (Call.pc = "returned" /\ Call.ret = <<>> /\ ~Call.embedded)

\* C5 happens: a search of a book the index did not know has returned
C5_Witness ==
    /\ Call.op = "similarity_search"
    /\ Call.pc = "returned"
    /\ ~Call.existed
    /\ Call.ret = <<>>

\* C6: delete_book(book) returns True, whether the book's collection exists or not.
C6_DeleteReturnsTrue ==
    (Call.op = "delete_book" /\ Call.pc = "returned") => Call.ret = TRUE

\* C7: when add_documents(chunks, b) has returned for a non-empty chunk list,
\* list_books() includes the sanitized name of b ("My_Book_" for "My Book!");
\* a delete_book(b) that follows returns True and list_books() no longer
\* includes that name.
C7_ListedThenDeleted ==
    [][ /\ (vs'["main"].op = "add_documents" /\ vs'["main"].pc = "returned"
              /\ vs'["main"].n > 0)
            => /\ Sanitize(vs'["main"].book_name) \in list_books'
               /\ vs'["main"].book_name = MyBook
                    => <<"M", "y", "_", "B", "o", "o", "k", "_">> \in list_books'
        /\ (Call.op = "add_documents" /\ Call.pc = "returned" /\ Call.n > 0
              /\ vs'["main"].op = "delete_book"
              /\ vs'["main"].book_name = Call.book_name)
            => /\ vs'["main"].ret = TRUE
               /\ Sanitize(Call.book_name) \notin list_books' ]_vars

\* C7 happens: delete_book has returned True for a book whose collection held
\* entries, and the book is no longer listed
C7_Witness ==
    /\ Call.op = "delete_book"
    /\ Call.pc = "returned"
    /\ Call.before_count > 0
    /\ Call.ret = TRUE
    /\ Call.collection \notin list_books

\* C8: with no current book (None or ""), query returns and query_stream yields
\* exactly the fixed message, and neither calls similarity_search, chat or
\* chat_stream.
C8_NoBookNoCalls ==
    (rag.op \in {"query", "query_stream"} /\ ~Truthy(rag.book))
        => /\ rag.pc \in {"yielded_no_book", "returned"}
           /\ rag.op = "query" => rag.response = NoBookMessage /\ rag.out = <<>>
           /\ rag.op = "query_stream" => rag.out = <<NoBookMessage>>
           /\ rag.search_calls = 0
           /\ rag.chat_calls = 0
           /\ rag.stream_calls = 0

\* C8 happens: query_stream has ended with "" as the current book
C8_Witness ==
    /\ rag.op = "query_stream"
    /\ rag.pc = "returned"
    /\ rag.book = <<>>

\* the fragments among the lines the backend has sent
RECURSIVE Fragments(_)
Fragments(lines) ==
    IF lines = <<>> THEN <<>>
    ELSE (IF Head(lines) # "" THEN <<Head(lines)>> ELSE <<>>) \o Fragments(Tail(lines))

\* C9: when the backend fails, query_stream does not raise: it ends the stream
\* with one fragment more than the backend has delivered, and has called
\* chat_stream once.
C9_StreamFailureSurfaced ==
    (rag.op = "query_stream" /\ rag.backend_failed)
        => /\ rag.pc # "raised"
           /\ rag.pc = "returned" => Len(rag.out) = Len(Fragments(rag.lines)) + 1
           /\ rag.stream_calls = 1

\* C10: when similarity_search raises, query and query_stream do not end with
\* that exception: they go on to call the generation backend.
C10_RetrievalFailureDegrades ==
    (rag.op \in {"query", "query_stream"} /\ Truthy(rag.book) /\ rag.pc \in Resting)
        => /\ rag.exc \notin {"EmbeddingFailure", "IndexFailure"}
           /\ rag.chat_calls + rag.stream_calls = 1

\* C11: the messages handed to the generation backend are the system message,
\* then the last min(len(h), 20) messages of the caller's history h in their
\* order, then the user's question, min(len(h), 20) + 2 messages in all; and no
\* step of a call changes the history the caller has passed.
C11_MessagesSent ==
    [][/\ rag.pc \notin Resting => rag'.chat_history = rag.chat_history
       /\ (rag.pc = "retrieving" /\ rag'.pc = "dispatch") =>
            LET h == OrEmpty(rag.chat_history)
                m == Min(Len(h), history_limit)
                sent == rag'.messages
            IN  /\ Len(sent) = m + 2
                /\ sent[1].role = "system"
                /\ \A j \in 1..m : sent[1 + j] = h[Len(h) - m + j]
                /\ sent[m + 2] = [role |-> "user", content |-> <<"question", rag.question>>]
      ]_vars

\* C11 happens: a question with a history of more than 20 messages is ready
\* for the backend
C11_Witness ==
    /\ rag.pc = "dispatch"
    /\ Truthy(rag.book)
    /\ Len(OrEmpty(rag.chat_history)) > history_limit

\* the text a sequence of fragments adds up to
RECURSIVE Concatenation(_)
Concatenation(fragments) ==
    IF fragments = <<>> THEN "" ELSE Head(fragments) \o Concatenation(Tail(fragments))

\* C12: while the backend streams without failing, what query_stream has
\* yielded is at every moment exactly the fragments the backend has sent so
\* far, in their order (none dropped, repeated, merged or held back), and it
\* adds up to the text the backend has sent.
C12_FragmentsRelayed ==
    (rag.op = "query_stream" /\ rag.stream_calls = 1 /\ ~rag.backend_failed)
        => /\ rag.out = Fragments(rag.lines)
           /\ Concatenation(rag.out) = Concatenation(rag.lines)

\* C12 happens: the backend has streamed "The ", "cat ", "sat." and ended
C12_Witness ==
    /\ rag.op = "query_stream"
    /\ rag.pc = "returned"
    /\ ~rag.backend_failed
    /\ rag.lines = <<"The ", "cat ", "sat.">>
    /\ Concatenation(rag.out) = "The cat sat."

\* the offsets of the text that window j of a chunk_text call covers
WindowFrom(c, j) == SliceBound(c.text, c.windows[j].start)
WindowTo(c, j) == SliceBound(c.text, c.windows[j].end)

\* C13: chunk_text stops as soon as the next start, end - chunk_overlap, does
\* not lie after the start of the window just cut: its loop makes a further
\* pass only from a start that has advanced.
C13_LoopStopsUnlessAdvancing ==
    [][(ct.pc = "loop" /\ ct'.pc = "loop") => ct'.start > ct.start]_vars

\* C14: for a text that is not empty and chunk_overlap < chunk_size, the
\* windows of a chunk_text call that has returned leave no gap: the first
\* starts at offset 0, each next one starts at or before the end of the one
\* before, the last one reaches the end of the text, and so every character
\* of the preprocessed text lies in a window.
C14_WindowsLeaveNoGap ==
    (ct.pc = "returned" /\ ct.text # <<>> /\ ct.chunk_overlap < ct.chunk_size)
        => /\ WindowFrom(ct, 1) = 0
           /\ \A j \in 2..Len(ct.windows) : WindowFrom(ct, j) <= WindowTo(ct, j - 1)
           /\ WindowTo(ct, Len(ct.windows)) = Len(ct.text)
           /\ \A p \in 1..Len(ct.text) :
                \E j \in 1..Len(ct.windows) : WindowFrom(ct, j) < p /\ p <= WindowTo(ct, j)

\* C15: a chunk_text call that has returned has emitted at least as many
\* chunks as the call with the same text, the same overlap and any larger
\* chunk size (both sizes above the overlap) emits.
C15_SmallerSizeNoFewerChunks ==
    (ct.pc = "returned" /\ ct.chunk_size > ct.chunk_overlap)
        => \A chunk_size2 \in (ct.chunk_size + 1)..MaxChunkSize :
             LET other == RunChunkText(ChunkTextCall(ct.arg, chunk_size2, ct.chunk_overlap))
             IN  other.pc = "returned" => Len(ct.chunks) >= Len(other.chunks)

\* offset p of the text lies inside a word: a word character on both sides
MidWord(text, p) ==
    /\ 0 < p /\ p < Len(text)
    /\ text[p] \in WordChars
    /\ text[p + 1] \in WordChars

\* the characters of window j that are left after strip()
Solid(c, j) == {p \in (WindowFrom(c, j) + 1)..WindowTo(c, j) : c.text[p] \notin Whitespace}

\* C16: of the first scenario's text with chunk size 40 and overlap 10, no
\* chunk begins or ends in the middle of a word.
C16_NoChunkCutsAWord ==
    (ct.arg = AliceText /\ ct.chunk_size = 40 /\ ct.chunk_overlap = 10)
        => \A j \in 1..Len(ct.windows) :
             Solid(ct, j) # {} =>
                /\ ~MidWord(ct.text, Smallest(Solid(ct, j)) - 1)
                /\ ~MidWord(ct.text, Largest(Solid(ct, j)))

\* C17: no chunk emitted by chunk_text is longer than chunk_size characters.
C17_ChunkSizeIsMaximum ==
    \A j \in 1..Len(ct.chunks) : Len(ct.chunks[j]) <= ct.chunk_size

\* C18: when query and query_stream follow each other with the same question,
\* history and n_chunks on the same current book and index, both make the
\* same similarity_search call or both make none, and both hand the backend
\* the same messages; query calls only chat and query_stream only chat_stream.
C18_SameStepsBeforeGeneration ==
    /\ rag.op = "query" => rag.stream_calls = 0
    /\ rag.op = "query_stream" => rag.chat_calls = 0
    /\ rag.twin # <<>> =>
        /\ rag.pc \notin {"build_context", "yielded_no_book"}
              => rag.searched = rag.twin[1].searched
        /\ (rag.messages # <<>> /\ rag.twin[1].messages # <<>>)
              => rag.messages = rag.twin[1].messages

\* C18 happens: query_stream has built its messages from a passage it has
\* retrieved with n_chunks 1, right after query did with the same arguments
C18_Witness ==
    /\ rag.op = "query_stream"
    /\ rag.pc = "dispatch"
    /\ rag.twin # <<>>
    /\ rag.twin[1].messages # <<>>
    /\ rag.n_chunks = 1
    /\ rag.context.kind = "passages"

\* C19: no step of a similarity_search call changes the index: the collections
\* list_books() reports and the entries of every collection stay as they are,
\* so that a search of an unknown or deleted book does not make it listed.
C19_SearchReadsOnly ==
    [][(vs'["main"].op = "similarity_search" /\ vs'["main"] # vs["main"])
            => /\ list_books' = list_books
               /\ collections' = collections]_vars

\* C20: when process_uploaded_file has returned False while a book was loaded,
\* book_text, book_pages, current_page, current_book, the engine's current
\* book, book_loaded and messages are as the call found them, and current_page
\* is a page of book_pages.
C20_FailedUploadKeepsSession ==
    (session.pc = "idle" /\ session.result = "False" /\ session.before.book_loaded)
        => /\ SessionFields(session, current_book) = session.before
           /\ 0 <= session.current_page
           /\ session.current_page < Len(session.book_pages)

====
